---- MODULE Spec2Model ----
(***************************************************************************)
(* The TTS request cache-and-cost engine of backend/services/ttsService.js *)
(* together with the server start-up that initialises it and the           *)
(* /generate route's mapping of a failure to a status code.                *)
(*                                                                         *)
(* Units: time is epoch milliseconds, money is hundredths of a dollar      *)
(* (the precision calculateCostUSD rounds to), durations are tenths of a   *)
(* second.  A text is a name with a length (Length); a cache key is the    *)
(* serialised content that is hashed, and two different contents are taken *)
(* to have different 12-character hash fragments.                          *)
(***************************************************************************)
EXTENDS Integers, Sequences, FiniteSets, TLC

(* ------------------------------ bounds -------------------------------- *)
MaxCalls == 2
MaxTicks == 1

(* ----------------------------- TTS_CONFIG ----------------------------- *)
MaxRequestBytes == 5000
standardCostPerCharacterUSD == 4
neural2CostPerCharacterUSD == 16
cacheExpiryHours == 168
CleanIntervalHours == 6
MockDelayMin == 1000

MaxAge == cacheExpiryHours * 60 * 60 * 1000
SweepInterval == CleanIntervalHours * 60 * 60 * 1000
MsPerDay == 24 * 60 * 60 * 1000

Undefined == "undefined"
Anonymous == "anonymous"

(* ------------------------------- texts -------------------------------- *)
Texts == {"T1", "T2"}

\* text.length; "T3", "T4" and "T5" are long enough to be sent in chunks
Length(text) ==
    CASE text = "T1" -> 1250
      [] text = "T2" -> 11
      [] text = "T3" -> 6000
      [] text = "T4" -> 6000
      [] text = "T5" -> 9003
      [] text = "S3" -> 313
      [] text = "S4" -> 1250
      [] text = "S5" -> 40
      [] OTHER -> 0

\* Buffer.byteLength(text, 'utf8'): the texts of the model are ASCII
ByteLength(text) == Length(text)

(* ------------------------------ chunking ------------------------------ *)
\* A piece of a text between two runs of terminal punctuation: its words s,
\* its length in bytes and how many of them are leading whitespace.
Piece(s, bytes, lead) == [s |-> s, bytes |-> bytes, lead |-> lead]

\* text.split(/[.!?]+/).  "T3" is "a. b. c." (the split leaves an empty piece
\* after the last full stop), "T4" is one sentence without punctuation,
\* "T5" is "e. f! . g" with a blank piece between "!" and "."
Split(text) ==
    CASE text = "T3" -> <<Piece("a", 1999, 0), Piece("b", 2000, 1),
                          Piece("c", 1998, 1), Piece("", 0, 0)>>
      [] text = "T4" -> <<Piece("d", 6000, 0)>>
      [] text = "T5" -> <<Piece("e", 3000, 0), Piece("f", 3000, 1),
                          Piece("", 1, 1), Piece("g", 2999, 1)>>
      [] OTHER -> <<Piece(text, Length(text), 0)>>

\* s => s.trim(): the piece is not blank
NonBlank(piece) == piece.bytes > piece.lead

maxChunkSize == 4500

RECURSIVE UntrimmedBytes(_)
\* Buffer.byteLength of the sentences, each followed by '.'
UntrimmedBytes(chunk) ==
    IF chunk = <<>>
    THEN 0
    ELSE Head(chunk).bytes + 1 + UntrimmedBytes(Tail(chunk))

RECURSIVE Accumulate(_, _, _)
\* the loop over the sentences, and the push of what is left after it;
\* currentChunk is the sequence of the sentences appended to it
Accumulate(chunks, currentChunk, sentences) ==
    IF sentences = <<>>
    THEN IF currentChunk # <<>> THEN Append(chunks, currentChunk) ELSE chunks
    ELSE LET sentence == Head(sentences)
             potentialChunk == Append(currentChunk, sentence)
         IN  IF UntrimmedBytes(potentialChunk) > maxChunkSize
                /\ currentChunk # <<>>
             THEN Accumulate(Append(chunks, currentChunk), <<sentence>>,
                             Tail(sentences))
             ELSE Accumulate(chunks, potentialChunk, Tail(sentences))

\* chunks that keep the blank pieces of the text
ChunksUnfiltered(text) == Accumulate(<<>>, <<>>, Split(text))

\* the chunks generateTTS cuts a text of more than 5000 bytes into
Chunks(text) == Accumulate(<<>>, <<>>, SelectSeq(Split(text), NonBlank))

\* Buffer.byteLength of chunk.trim(), the text sent to the provider
ChunkBytes(chunk) == UntrimmedBytes(chunk) - Head(chunk).lead

RECURSIVE JoinSentences(_)
JoinSentences(chunk) ==
    IF chunk = <<>>
    THEN ""
    ELSE (IF Head(chunk).lead > 0 THEN " " ELSE "") \o Head(chunk).s \o "."
             \o JoinSentences(Tail(chunk))

\* chunk.trim(), as a string
ChunkText(chunk) ==
    Head(chunk).s \o "." \o JoinSentences(Tail(chunk))

(* ------------------------------- voices ------------------------------- *)
VOICE_MAP ==
    [v \in {"female", "male", "neural-female", "neural-male",
            "en-US-Standard-C", "en-US-Standard-B",
            "en-US-Neural2-F", "en-US-Neural2-D"} |->
        CASE v \in {"female", "en-US-Standard-C"} -> "en-US-Standard-C"
          [] v \in {"male", "en-US-Standard-B"} -> "en-US-Standard-B"
          [] v \in {"neural-female", "en-US-Neural2-F"} -> "en-US-Neural2-F"
          [] OTHER -> "en-US-Neural2-D"]

\* VOICE_MAP is an object literal: besides its own keys, a lookup finds the
\* members it inherits from Object.prototype, which are functions or objects
ObjectPrototypeKeys ==
    {"constructor", "toString", "valueOf", "hasOwnProperty", "__proto__"}

\* the member of Object.prototype of the given name (not a string)
InheritedMember(key) == "Object.prototype." \o key

\* VOICE_MAP[requestedVoice] || VOICE_MAP['female']
ResolveVoice(requestedVoice) ==
    IF requestedVoice \in DOMAIN VOICE_MAP
    THEN VOICE_MAP[requestedVoice]
    ELSE IF requestedVoice \in ObjectPrototypeKeys
    THEN InheritedMember(requestedVoice)
    ELSE VOICE_MAP["female"]

getSimplifiedVoiceName(voiceName) ==
    CASE voiceName \in {"female", "male", "neural-female", "neural-male"} -> voiceName
      [] voiceName = "en-US-Standard-C" -> "female"
      [] voiceName = "en-US-Standard-B" -> "male"
      [] voiceName = "en-US-Neural2-F" -> "neural-female"
      [] voiceName = "en-US-Neural2-D" -> "neural-male"
      [] OTHER -> "female"

\* whether a resolved voice is a string: an inherited member is not
IsString(voiceName) ==
    voiceName \notin {InheritedMember(k) : k \in ObjectPrototypeKeys}

\* voiceName.includes('Neural2'), over the voice strings of the model; on a
\* voice that is not a string it raises a TypeError
IncludesNeural2(voiceName) ==
    voiceName \in {"en-US-Neural2-" \o l : l \in {"A", "B", "C", "D", "F"}}

isNeural2Voice(voiceName) ==
    \/ IncludesNeural2(voiceName)
    \/ voiceName = "neural-female"
    \/ voiceName = "neural-male"

(* ----------------------------- cost model ----------------------------- *)
\* Character counts (up to the 100,000 the route accepts) at which the
\* double product characterCount * 0.000004 * 100 falls just below k + 0.5
\* although the exact product is k + 0.5, so that Math.round rounds down.
FloatRoundsDown ==
    {8750, 33750, 36250, 41250, 48750, 56250, 68750, 71250, 98750}

\* Math.round(characterCount * costPerCharacter * 100), in hundredths of USD
calculateCostUSD(characterCount, voiceName) ==
    LET costPerCharacter == IF isNeural2Voice(voiceName)
                            THEN neural2CostPerCharacterUSD
                            ELSE standardCostPerCharacterUSD
        halfUp == (2 * characterCount * costPerCharacter + 10000) \div 20000
    IN  IF costPerCharacter = standardCostPerCharacterUSD
           /\ characterCount \in FloatRoundsDown
        THEN halfUp - 1
        ELSE halfUp

\* Math.ceil(a / b) for naturals
CeilDiv(a, b) == (a + b - 1) \div b

(* ------------------------------ cache key ----------------------------- *)
\* A string that is hashed: a plain text, or JSON.stringify(segments)
PlainText(text) == [plain |-> text, json |-> <<>>]

JSONstringify(segments) == [plain |-> "", json |-> segments]

\* a fingerprint that leaves the audio configuration out
generateCacheKeyWithoutConfig(text, voiceName, audioConfig) ==
    <<text, voiceName, [speakingRate |-> "undefined", pitch |-> "undefined",
                        volumeGainDb |-> "undefined"]>>

\* sha256 of JSON.stringify({ text, voiceName, audioConfig }); a field of
\* audioConfig whose value is undefined is left out by the serialisation,
\* so that {} is the configuration with every field undefined; a voice that
\* is a function is left out as well, and Object.prototype is written as {}
generateCacheKey(text, voiceName, audioConfig) ==
    <<text,
      IF voiceName \in {"Object.prototype." \o k :
                           k \in {"constructor", "toString", "valueOf",
                                  "hasOwnProperty"}}
      THEN "undefined"
      ELSE IF voiceName = "Object.prototype.__proto__" THEN "{}" ELSE voiceName,
      audioConfig>>

\* cacheKey.substring(0, 12)
HashPart(cacheKey) == cacheKey

\* file.includes(voicePart) on a name tts-{voice}-{hash}-{timestamp}.wav or
\* conversation-{hash}-{timestamp}.wav ("male" is part of "female", ...)
NameIncludes(name, part) ==
    IF name.kind = "conversation"
    THEN part = "conversation"
    ELSE \/ part = name.voicePart
         \/ part = "male"
         \/ part = "female" /\ name.voicePart = "neural-female"

\* a lookup that finds the files of conversations only
MatchesConversationOnly(f, hashPart, voicePart) ==
    /\ f.name.hashPart = hashPart
    /\ f.name.kind = "conversation"
    /\ voicePart = "conversation"

\* file.includes(hashPart) && file.includes(voicePart)
MatchesCache(f, hashPart, voicePart) ==
    /\ f.name.hashPart = hashPart
    /\ NameIncludes(f.name, voicePart)

(* ------------------------------ eviction ------------------------------ *)
\* a sweep that takes a file of exactly the window's age as well
ExpiredAtWindow(f, t) == t - f.mtime >= MaxAge

\* a sweep whose window is twice as long
ExpiredLate(f, t) == t - f.mtime > 2 * MaxAge

\* a sweep whose comparison is turned round: it takes the young files
ExpiredYoung(f, t) == t - f.mtime < MaxAge

\* now - stats.mtime.getTime() > maxAge
Expired(f, t) == t - f.mtime > MaxAge

\* the errors the file system raises: on opening or creating the directory,
\* and on writing a file
AccessErrors(faulty) == IF faulty THEN {"EACCES: permission denied"} ELSE {}
WriteErrors(faulty) == IF faulty THEN {"EDQUOT: disk quota exceeded"} ELSE {}

NoSweep == [kind |-> "none", at |-> 0, deleted |-> {}, error |-> FALSE,
            thrown |-> FALSE]

NotSwept == [deleted |-> {}, error |-> FALSE, thrown |-> FALSE]

\* a cleanCache() without its try/catch: what goes wrong in it is thrown
CleanCacheUncaught(dir, t, faulty) ==
    LET old == {f \in dir : Expired(f, t)}
        clean == {[deleted |-> old, error |-> FALSE, thrown |-> FALSE]}
        partial == {d \in SUBSET old : d = {} \/ d # dir}
        failed == {[deleted |-> d, error |-> TRUE, thrown |-> TRUE] : d \in partial}
    IN  IF faulty THEN clean \cup failed ELSE clean

\* The outcomes of cleanCache() on directory dir at time t.  readdirSync,
\* statSync or unlinkSync may throw; the forEach then stops, with the files
\* it has visited so far (in the directory's order, which is not specified)
\* handled; the catch logs the error and cleanCache returns normally.
CleanCacheOutcomes(dir, t, faulty) ==
    LET old == {f \in dir : Expired(f, t)}
        clean == {[deleted |-> old, error |-> FALSE, thrown |-> FALSE]}
        partial == {d \in SUBSET old : d = {} \/ d # dir}
        failed == {[deleted |-> d, error |-> TRUE, thrown |-> FALSE] : d \in partial}
    IN  IF faulty THEN clean \cup failed ELSE clean

(* ------------------------------- audio -------------------------------- *)
\* audio configurations; the numbers are kept as JSON writes them
NoCfg == [speakingRate |-> Undefined, pitch |-> Undefined, volumeGainDb |-> Undefined]
DefaultCfg == [speakingRate |-> "1", pitch |-> "0", volumeGainDb |-> "0"]

\* x || d
OrElse(x, d) == IF x \in {Undefined, "0"} THEN d ELSE x

\* ttsRequest.audioConfig: speakingRate || 1.0, pitch || 0.0, volumeGainDb || 0.0
RequestAudioConfig(audioConfig) ==
    [speakingRate |-> OrElse(audioConfig.speakingRate, "1"),
     pitch |-> OrElse(audioConfig.pitch, "0"),
     volumeGainDb |-> OrElse(audioConfig.volumeGainDb, "0")]

\* response.audioContent of ttsClient.synthesizeSpeech: the provider's
\* rendering of one text in one voice under one audio configuration
ProviderAudio(text, voiceName, cfg) ==
    [src |-> "provider", text |-> text, voice |-> voiceName, cfg |-> cfg,
     n |-> 0, parts |-> <<>>]

\* generateMockTTS: a 440 Hz tone of max(1, ceil(characterCount / 100)) s
MockDuration(characterCount) ==
    IF CeilDiv(characterCount, 100) > 1 THEN CeilDiv(characterCount, 100) ELSE 1

MockAudio(text) ==
    [src |-> "mock", text |-> "", voice |-> "", cfg |-> NoCfg,
     n |-> MockDuration(Length(text)), parts |-> <<>>]

\* generateSilenceBuffer: floor(24000 * max(0.1, durationSeconds)) samples
generateSilenceBuffer(pauseTenths) ==
    [src |-> "silence", text |-> "", voice |-> "", cfg |-> NoCfg,
     n |-> 2400 * (IF pauseTenths > 1 THEN pauseTenths ELSE 1), parts |-> <<>>]

\* Buffer.concat(audioBuffers)
ConcatAudio(audioBuffers) ==
    [src |-> "concat", text |-> "", voice |-> "", cfg |-> NoCfg,
     n |-> 0, parts |-> audioBuffers]

(* ------------------------------- state -------------------------------- *)
VARIABLES
    now,        \* Date.now()
    ticks,      \* how often the clock has advanced
    env,        \* the process's surroundings: the provider credentials of
                \* process.env, and whether the file system may fail
    serverPc,   \* where the app.listen callback stands
    ttsClient,  \* whether the module's ttsClient is set
    timer,      \* setInterval(cleanCache, ...): armed, next firing
    dirExists,  \* whether TTS_CONFIG.cacheDirectory exists
    files,      \* the files of the cache directory
    usageCache, \* the usage tracker: userKey -> counters
    call,       \* the generation calls in flight
    started,    \* how many calls have started
    ret,        \* what the call that ended last returned or threw
    sweep,      \* what the sweep that ran last did
    completed,  \* the single-segment arguments a call has returned a result for
    cached,     \* those of them no sweep has deleted a file of since
    applied     \* the application of a function of the service made last:
                \* its arguments and what it returned

vars == <<now, ticks, env, serverPc, ttsClient, timer, dirExists, files,
          usageCache, call, started, ret, sweep, completed, cached, applied>>

\* the slots in which generation calls run side by side
Procs == {1, 2}

ProviderErrors == {"quota", "authentication", "billing", "other"}

UserIds == {Anonymous, "u1"}

Args(req) ==
    [text |-> req.text, voiceName |-> req.voiceName, audioConfig |-> req.audioConfig]

NoReq == [text |-> "", voiceName |-> "", audioConfig |-> NoCfg, userId |-> "",
          conversationSegments |-> <<>>, speakerPauseDuration |-> 0]

TtsRequest(text, voiceName, audioConfig, userId) ==
    [text |-> text, voiceName |-> voiceName, audioConfig |-> audioConfig,
     userId |-> userId, conversationSegments |-> <<>>, speakerPauseDuration |-> 0]

ConversationRequest(segments, userId, pause) ==
    [text |-> "", voiceName |-> "", audioConfig |-> NoCfg, userId |-> userId,
     conversationSegments |-> segments, speakerPauseDuration |-> pause]

NoName ==
    [kind |-> "none", voicePart |-> "",
     hashPart |-> HashPart(generateCacheKey(PlainText(""), "", NoCfg)),
     timestamp |-> 0]

Idle ==
    [pc |-> "idle", kind |-> "none", req |-> NoReq, voiceName |-> "",
     filename |-> NoName, prior |-> {}, priorDone |-> {}, mockStart |-> 0,
     providerError |-> "none", i |-> 0, audioBuffers |-> <<>>,
     totalCharacters |-> 0, totalCost |-> 0, totalDuration |-> 0,
     paths |-> <<>>]

NoRet ==
    [kind |-> "none", status |-> "none", req |-> NoReq, cacheHit |-> FALSE,
     estimatedCostUSD |-> 0, file |-> NoName, voiceUsed |-> "", duration |-> 0,
     characterCount |-> 0, failedOp |-> "none", message |-> "none",
     providerError |-> "none", sweepError |-> FALSE, prior |-> {},
     priorDone |-> {}, http |-> 0, paths |-> <<>>, emitted |-> <<>>]

\* the start of the run, late enough for a file to be older than the window
StartTime == 2 * MaxAge

TickSteps == {MockDelayMin, SweepInterval}

(* --------------------------- the cache on disk ------------------------ *)
\* fs.writeFileSync(cacheFilePath, content) at time t
WriteFile(dir, name, t, content) ==
    {f \in dir : f.name # name}
        \cup {[name |-> name, mtime |-> t, content |-> content]}

TtsName(text, voiceName, audioConfig, t) ==
    [kind |-> "tts",
     voicePart |-> getSimplifiedVoiceName(voiceName),
     hashPart |-> HashPart(generateCacheKey(PlainText(text), voiceName,
                                            audioConfig)),
     timestamp |-> t]

\* files a previous run of the server may have left in the directory
LeftFiles ==
    {[name |-> TtsName("T1", "en-US-Standard-C", DefaultCfg, StartTime - MaxAge),
      mtime |-> StartTime - MaxAge,
      content |-> MockAudio("T1")]}

Environments ==
    {[credsJson |-> c.credsJson, projectId |-> c.projectId, faulty |-> d] :
        c \in {[credsJson |-> "absent", projectId |-> FALSE],
               [credsJson |-> "set", projectId |-> FALSE],
               [credsJson |-> "set", projectId |-> TRUE]},
        d \in BOOLEAN}

\* no function of the service has been applied on its own
NotApplied ==
    [fn |-> "none", token |-> "", voiceName |-> "", raises |-> FALSE,
     a |-> 0, b |-> 0,
     standardVoice |-> "", premiumVoice |-> "",
     standard |-> [a |-> 0, b |-> 0, sum |-> 0],
     premium |-> [a |-> 0, b |-> 0, sum |-> 0],
     userId |-> "", period |-> "",
     usage |-> [totalCharacters |-> 0, totalRequests |-> 0, totalCostUSD |-> 0,
                startDate |-> 0, endDate |-> 0, remainingQuota |-> 0]]

\* no request has been served yet
NoCallsYet ==
    /\ now = StartTime
    /\ ticks = 0
    /\ usageCache = << >>
    /\ call = [p \in Procs |-> Idle]
    /\ started = 0
    /\ ret = NoRet
    /\ sweep = NoSweep
    /\ completed = {}
    /\ cached = {}
    /\ applied = NotApplied

\* the process as app.listen calls back: nothing of the service is set up
InitStartup ==
    /\ NoCallsYet
    /\ env \in {e \in Environments : e.faulty}
    /\ serverPc = "db"
    /\ ttsClient = FALSE
    /\ timer = [armed |-> FALSE, nextFire |-> 0]
    /\ dirExists \in BOOLEAN
    /\ files = IF dirExists THEN LeftFiles ELSE {}

\* states in which the app.listen callback leaves the process: without the
\* credentials nothing was initialised (the directory is there from an
\* earlier run); with them the start-up sweep has run and the timer is
\* armed, and the client is set if the project id is set as well
ServingStates ==
    {[credsJson |-> "absent", projectId |-> FALSE, ttsClient |-> FALSE,
      armed |-> FALSE, dirExists |-> TRUE],
     [credsJson |-> "set", projectId |-> FALSE, ttsClient |-> FALSE,
      armed |-> TRUE, dirExists |-> TRUE],
     [credsJson |-> "set", projectId |-> TRUE, ttsClient |-> TRUE,
      armed |-> TRUE, dirExists |-> TRUE]}

Serving(s, faulty, dir) ==
    /\ NoCallsYet
    /\ env = [credsJson |-> s.credsJson, projectId |-> s.projectId,
              faulty |-> faulty]
    /\ serverPc = "up"
    /\ ttsClient = s.ttsClient
    /\ timer = IF s.armed
               THEN [armed |-> TRUE, nextFire |-> StartTime + SweepInterval]
               ELSE [armed |-> FALSE, nextFire |-> 0]
    /\ dirExists = s.dirExists
    /\ files = IF dirExists THEN dir ELSE {}

\* the server has started, without the provider or with it, on a sound
\* file system
Init ==
    \E s \in {t \in ServingStates : t.credsJson = "absent" \/ t.projectId} :
        Serving(s, FALSE, LeftFiles)

\* the server has started with the credentials, on an empty cache and a
\* sound file system
InitKey ==
    \E s \in {t \in ServingStates : t.credsJson = "set"} : Serving(s, FALSE, {})

(* ------------------------------ the route ----------------------------- *)
\* error.message.includes(keyword), the message being
\* "TTS generation failed: " followed by the message of the cause
MessageIncludes(cause, keyword) ==
    \/ cause = keyword
    \/ keyword = "quota" /\ cause = "EDQUOT: disk quota exceeded"

\* the status the catch of the generation routes responds with
RouteErrorStatus(cause) ==
    IF MessageIncludes(cause, "quota") THEN 429
    ELSE IF MessageIncludes(cause, "authentication") THEN 401
    ELSE IF MessageIncludes(cause, "billing") THEN 402
    ELSE 500

\* req.user: the routes pass req.user.id as userId, and 'anonymous' without
Authenticated(req) == req.userId # Anonymous

\* a route that records single-segment generations on a miss only
MissRecords(kind, req, hit, cost, file, voiceUsed, duration, characterCount) ==
    IF Authenticated(req) /\ ~hit
    THEN <<[table |-> IF kind = "tts" THEN "audio_history"
                                      ELSE "conversation_history",
            userId |-> req.userId, voiceName |-> voiceUsed,
            audioFilename |-> file, characterCount |-> characterCount,
            estimatedCostUSD |-> cost, duration |-> duration]>>
    ELSE <<>>

\* The records the generation routes hand to audioHistoryModel.create and
\* to conversationHistoryModel.create once the service has returned a
\* result: POST /generate `if (req.user)`, POST /generate-conversation
\* `if (req.user && !result.cacheHit)`.  A failure of create is caught and
\* logged, and the response is the same.
HistoryRecords(kind, req, hit, cost, file, voiceUsed, duration, characterCount) ==
    IF kind = "tts"
    THEN IF Authenticated(req)
         THEN <<[table |-> "audio_history", userId |-> req.userId,
                 voiceName |-> voiceUsed, audioFilename |-> file,
                 characterCount |-> characterCount,
                 estimatedCostUSD |-> IF hit THEN 0 ELSE cost,
                 duration |-> duration]>>
         ELSE <<>>
    ELSE IF Authenticated(req) /\ ~hit
         THEN <<[table |-> "conversation_history", userId |-> req.userId,
                 voiceName |-> voiceUsed, audioFilename |-> file,
                 characterCount |-> characterCount,
                 estimatedCostUSD |-> cost, duration |-> duration]>>
         ELSE <<>>

\* what a call hands back: a result ...
Returned(c, hit, cost, file, voiceUsed, duration, characterCount, sweepError) ==
    [kind |-> c.kind, status |-> "ok", req |-> c.req, cacheHit |-> hit,
     estimatedCostUSD |-> cost, file |-> file, voiceUsed |-> voiceUsed,
     duration |-> duration, characterCount |-> characterCount,
     failedOp |-> "none", message |-> "none",
     providerError |-> c.providerError, sweepError |-> sweepError,
     prior |-> c.prior, priorDone |-> c.priorDone, http |-> 200,
     paths |-> c.paths,
     emitted |-> HistoryRecords(c.kind, c.req, hit, cost, file, voiceUsed,
                                duration, characterCount)]

\* ... or the error of the outer catch, "... generation failed: <cause>"
Thrown(c, op, cause, sweepError) ==
    [kind |-> c.kind, status |-> "error", req |-> c.req, cacheHit |-> FALSE,
     estimatedCostUSD |-> 0, file |-> NoName, voiceUsed |-> "",
     duration |-> 0, characterCount |-> 0,
     failedOp |-> op, message |-> cause,
     providerError |-> c.providerError, sweepError |-> sweepError,
     prior |-> c.prior, priorDone |-> c.priorDone,
     http |-> RouteErrorStatus(cause), paths |-> c.paths, emitted |-> <<>>]

(* ------------------------------ bookkeeping --------------------------- *)
KeyOfArgs(a) ==
    HashPart(generateCacheKey(PlainText(a.text), ResolveVoice(a.voiceName),
                              a.audioConfig))

\* the arguments in as whose cache file is among the deleted files
EvictedArgs(as, deleted) ==
    {a \in as : \E f \in deleted : f.name.hashPart = KeyOfArgs(a)}

\* the ghost sets after a call has ended with r and a sweep has deleted files
Remember(r, deleted) ==
    IF r.status = "ok" /\ r.kind = "tts"
    THEN /\ completed' = completed \cup {Args(r.req)}
         /\ cached' = (cached \ EvictedArgs(cached, deleted)) \cup {Args(r.req)}
    ELSE /\ completed' = completed
         /\ cached' = cached \ EvictedArgs(cached, deleted)

SweepRecord(kind, t, o) ==
    [kind |-> kind, at |-> t, deleted |-> o.deleted, error |-> o.error,
     thrown |-> o.thrown]

(* ----------------------------- usage tracker -------------------------- *)
\* new Date().toISOString().split('T')[0]: the UTC day
Today(t) == t \div MsPerDay

\* the message of the TypeError isNeural2Voice raises on such a voice
IncludesTypeError == "voiceName.includes is not a function"

\* a tracker that sets the bucket anew at every call: the last write wins
trackTTSUsageOverwriting(usage, userId, characterCount, voiceName, t) ==
    LET userKey == <<userId, Today(t)>>
        new == [totalCharacters |-> characterCount,
                totalRequests |-> 1,
                totalCostUSD |-> calculateCostUSD(characterCount, voiceName)]
    IN  [k \in DOMAIN usage \cup {userKey} |-> IF k = userKey THEN new ELSE usage[k]]

\* The bucket of the user and the UTC day is created if it is not there,
\* and its three counters are raised one statement after the other: on a
\* voice that is not a string the third statement raises a TypeError, and
\* the first two have taken effect.
trackTTSUsage(usage, userId, characterCount, voiceName, t) ==
    LET userKey == <<userId, Today(t)>>
        old == IF userKey \in DOMAIN usage
               THEN usage[userKey]
               ELSE [totalCharacters |-> 0, totalRequests |-> 0, totalCostUSD |-> 0]
        new == [totalCharacters |-> old.totalCharacters + characterCount,
                totalRequests |-> old.totalRequests + 1,
                totalCostUSD |->
                    IF IsString(voiceName)
                    THEN old.totalCostUSD
                             + calculateCostUSD(characterCount, voiceName)
                    ELSE old.totalCostUSD]
    IN  [k \in DOMAIN usage \cup {userKey} |-> IF k = userKey THEN new ELSE usage[k]]

\* if (userId && userId !== 'anonymous') trackTTSUsage(...)
TrackIfKnown(usage, userId, characterCount, voiceName, t) ==
    IF userId # "" /\ userId # Anonymous
    THEN trackTTSUsage(usage, userId, characterCount, voiceName, t)
    ELSE usage

\* the offsets of the server's local time from UTC, in hours
TimeZones == {0 - 5, 0, 2}

MsPerHour == 60 * 60 * 1000

Periods == {"day", "week", "month", "year"}

freeQuotaPerMonth == 1000000

\* the day of the server's local calendar, counted from 1970-01-01
LocalDay(t, tz) == (t + tz * MsPerHour) \div MsPerDay

\* now.getDay(): 0 is Sunday, and 1970-01-01 was a Thursday
DayOfWeek(day) == (day + 4) % 7

\* the first day of the month of a day of the first quarter of 1970, and
\* the first day of the month after it
MonthStart(day) == IF day < 31 THEN 0 ELSE IF day < 59 THEN 31 ELSE 59
MonthEnd(day) == IF day < 31 THEN 31 ELSE IF day < 59 THEN 59 ELSE 90

\* startDate and endDate of getTTSUsage, in hours since the epoch (they are
\* whole hours): new Date(y, m, d) is midnight of the server's local time
UsageWindow(period, t, tz) ==
    LET day == LocalDay(t, tz)
        Midnight(d) == d * 24 - tz
    IN  CASE period = "day" ->
                 [startDate |-> Midnight(day), endDate |-> Midnight(day) + 24]
          [] period = "week" ->
                 [startDate |-> Midnight(day - DayOfWeek(day)),
                  endDate |-> Midnight(day - DayOfWeek(day)) + 7 * 24]
          [] OTHER ->
                 [startDate |-> Midnight(MonthStart(day)),
                  endDate |-> Midnight(MonthEnd(day))]

\* new Date(usage.date): midnight UTC of the bucket's day, in hours
UsageDate(userKey) == userKey[2] * 24

RECURSIVE SumOver(_, _, _)
\* the sum of a counter over a set of buckets
SumOver(usage, keys, counter) ==
    IF keys = {}
    THEN 0
    ELSE LET k == CHOOSE x \in keys : TRUE
         IN  usage[k][counter] + SumOver(usage, keys \ {k}, counter)

\* getTTSUsage(userId, period) at time t on a server of time zone tz: the
\* sums over the user's buckets whose date lies in the window
getTTSUsage(usage, userId, period, t, tz) ==
    LET w == UsageWindow(period, t, tz)
        keys == {k \in DOMAIN usage :
                    /\ k[1] = userId
                    /\ UsageDate(k) >= w.startDate
                    /\ UsageDate(k) < w.endDate}
        totalCharacters == SumOver(usage, keys, "totalCharacters")
    IN  [totalCharacters |-> totalCharacters,
         totalRequests |-> SumOver(usage, keys, "totalRequests"),
         totalCostUSD |-> SumOver(usage, keys, "totalCostUSD"),
         startDate |-> w.startDate,
         endDate |-> w.endDate,
         remainingQuota |-> IF freeQuotaPerMonth > totalCharacters
                            THEN freeQuotaPerMonth - totalCharacters
                            ELSE 0]

\* GET /api/tts/usage without a user, or a caller of the service: the
\* tracker is read and nothing is changed
GetTTSUsage(userId, period, tz) ==
    /\ serverPc # "crashed"
    /\ applied' = [NotApplied EXCEPT
                      !.fn = "getTTSUsage", !.userId = userId,
                      !.period = period,
                      !.usage = getTTSUsage(usageCache, userId, period, now, tz)]
    /\ ret' = NoRet
    /\ sweep' = NoSweep
    /\ UNCHANGED <<now, ticks, env, serverPc, ttsClient, timer, dirExists, files,
                   usageCache, call, started, completed, cached>>

(* ------------------------------ the clock ----------------------------- *)
Tick(d) ==
    /\ serverPc # "crashed"
    /\ ticks < MaxTicks
    /\ timer.armed => now + d <= timer.nextFire
    /\ now' = now + d
    /\ ticks' = ticks + 1
    /\ ret' = NoRet
    /\ sweep' = NoSweep
    /\ UNCHANGED <<applied, env, serverPc, ttsClient, timer, dirExists, files,
                   usageCache, call, started, completed, cached>>

\* the steps the clock may take: a fixed one, or up to the timer's firing
Steps ==
    TickSteps \cup (IF timer.armed /\ timer.nextFire > now
                    THEN {timer.nextFire - now} ELSE {})

(* --------------------------- server start-up -------------------------- *)
MkdirOutcomes == IF dirExists THEN {"ok"} ELSE {"ok"} \cup AccessErrors(env.faulty)

\* initializeTTSService after `await initializeTTSClient()`:
\* ensureCacheDirectory(); cleanCache(); setInterval(cleanCache, 6 h).
\* An error thrown here is caught by the app.listen callback.
InitializeTail ==
    \E mk \in MkdirOutcomes :
        IF mk # "ok"
        THEN /\ serverPc' = "up"
             /\ sweep' = NoSweep
             /\ UNCHANGED <<timer, dirExists, files, cached>>
        ELSE \E o \in CleanCacheOutcomes(files, now, env.faulty) :
                /\ serverPc' = "up"
                /\ dirExists' = TRUE
                /\ files' = files \ o.deleted
                /\ cached' = cached \ EvictedArgs(cached, o.deleted)
                /\ sweep' = SweepRecord("startup", now, o)
                /\ timer' = IF o.thrown
                            THEN timer
                            ELSE [armed |-> TRUE, nextFire |-> now + SweepInterval]

\* `await initializeDatabase()` ends (its failure is caught and logged);
\* initializeTTSService is called only if the credentials variable is set,
\* and initializeTTSClient returns false at once without a project id
ServerDatabaseDone ==
    /\ serverPc = "db"
    /\ IF env.credsJson = "absent"
       THEN /\ serverPc' = "up"
            /\ sweep' = NoSweep
            /\ UNCHANGED <<timer, dirExists, files, cached>>
       ELSE IF ~env.projectId
       THEN InitializeTail
       ELSE /\ serverPc' = "import"
            /\ sweep' = NoSweep
            /\ UNCHANGED <<timer, dirExists, files, cached>>
    /\ ret' = NoRet
    /\ UNCHANGED <<applied, now, ticks, env, ttsClient, usageCache, call, started, completed>>

\* `await import('@google-cloud/text-to-speech')` ends; the credentials are
\* parsed and, if they are valid, the client is constructed and assigned
\* before listVoices is awaited
ServerImportDone(ok) ==
    /\ serverPc = "import"
    /\ IF ok
       THEN /\ serverPc' = "listVoices"
            /\ ttsClient' = TRUE
            /\ sweep' = NoSweep
            /\ UNCHANGED <<timer, dirExists, files, cached>>
       ELSE /\ InitializeTail
            /\ UNCHANGED ttsClient
    /\ ret' = NoRet
    /\ UNCHANGED <<applied, now, ticks, env, usageCache, call, started, completed>>

\* `await ttsClient.listVoices(...)` ends, with voices, without, or throwing:
\* initializeTTSClient returns true or false, and ttsClient stays assigned
ServerListVoicesDone ==
    /\ serverPc = "listVoices"
    /\ InitializeTail
    /\ ret' = NoRet
    /\ UNCHANGED <<applied, now, ticks, env, ttsClient, usageCache, call, started, completed>>

\* the interval timer calls cleanCache; an error it threw would be uncaught
TimerSweep ==
    /\ serverPc # "crashed"
    /\ timer.armed
    /\ now >= timer.nextFire
    /\ \E o \in CleanCacheOutcomes(files, now, env.faulty) :
          /\ files' = files \ o.deleted
          /\ cached' = cached \ EvictedArgs(cached, o.deleted)
          /\ sweep' = SweepRecord("timer", now, o)
          /\ serverPc' = IF o.thrown THEN "crashed" ELSE serverPc
    /\ timer' = [timer EXCEPT !.nextFire = @ + SweepInterval]
    /\ ret' = NoRet
    /\ UNCHANGED <<applied, now, ticks, env, ttsClient, dirExists, usageCache, call,
                   started, completed>>

(* ---------------------------- generateTTS ----------------------------- *)
\* a hit that is charged like a synthesis
CacheResultCharged(c, existingFile, characterCount) ==
    Returned(c, TRUE, calculateCostUSD(characterCount, c.voiceName),
             existingFile.name, c.voiceName,
             10 * CeilDiv(characterCount, 10), characterCount, FALSE)

\* the cacheResult of a hit on existingFile
CacheResult(c, existingFile, characterCount) ==
    Returned(c, TRUE, 0, existingFile.name, c.voiceName,
             10 * CeilDiv(characterCount, 10), characterCount, FALSE)

\* a catch that hands quota, authentication and billing errors on
OnGoogleErrorRethrow(kind) ==
    IF kind \in {"quota", "authentication", "billing"} THEN "throw" ELSE "fallback"

\* the catch around the provider calls of generateTTS: what becomes of an
\* error of the given kind (the fallback generator takes over)
OnGoogleError(kind) == "fallback"

\* The synchronous tail of a generation once the audio is there:
\* writeFileSync, trackTTSUsage, the cost, the 10% cleanCache, the result.
\* Whatever throws on the way reaches the outer catch: an error of the
\* write, or the TypeError of the cost of a voice that is not a string.
Persist(p, c, content, characterCount, usageVoice, cost, voiceUsed, duration) ==
    \E w \in {"ok"} \cup WriteErrors(env.faulty) :
        IF w # "ok"
        THEN /\ ret' = Thrown(c, "write", w, FALSE)
             /\ sweep' = NoSweep
             /\ Remember(ret', {})
             /\ UNCHANGED <<files, usageCache>>
        ELSE IF ~IsString(usageVoice)
        THEN /\ files' = WriteFile(files, c.filename, now, content)
             /\ usageCache' = TrackIfKnown(usageCache, c.req.userId,
                                           characterCount, usageVoice, now)
             /\ ret' = Thrown(c, "cost", IncludesTypeError, FALSE)
             /\ sweep' = NoSweep
             /\ Remember(ret', {})
        ELSE LET written == WriteFile(files, c.filename, now, content)
             IN  \E doSweep \in BOOLEAN :
                 \E o \in IF doSweep
                          THEN CleanCacheOutcomes(written, now, env.faulty)
                          ELSE {NotSwept} :
                    /\ files' = written \ o.deleted
                    /\ usageCache' = TrackIfKnown(usageCache, c.req.userId,
                                                  characterCount, usageVoice, now)
                    /\ sweep' = IF doSweep
                                THEN SweepRecord("request", now, o)
                                ELSE NoSweep
                    /\ ret' = IF o.thrown
                              THEN Thrown(c, "sweep", "EACCES: permission denied",
                                          o.error)
                              ELSE Returned(c, FALSE, cost, c.filename, voiceUsed,
                                            duration, characterCount, o.error)
                    /\ Remember(ret', o.deleted)

\* a generateTTS whose hit rewrites the file it has found, to keep it young
GenerateTTSStartTouching(p, req) ==
    /\ serverPc # "crashed"
    /\ call[p].pc = "idle"
    /\ started < MaxCalls
    /\ started' = started + 1
    /\ LET voiceName == ResolveVoice(req.voiceName)
           characterCount == Length(req.text)
           cacheKey == generateCacheKey(PlainText(req.text), voiceName,
                                        req.audioConfig)
           voicePart == getSimplifiedVoiceName(voiceName)
           hashPart == HashPart(cacheKey)
           c == [Idle EXCEPT !.kind = "tts", !.req = req, !.voiceName = voiceName,
                             !.filename = TtsName(req.text, voiceName,
                                                  req.audioConfig, now),
                             !.prior = cached, !.priorDone = completed,
                             !.mockStart = now]
           existingFiles == {f \in files : MatchesCache(f, hashPart, voicePart)}
       IN  \E mk \in MkdirOutcomes, rd \in {"ok"} \cup AccessErrors(env.faulty) :
             IF mk # "ok"
             THEN /\ rd = "ok"
                  /\ ret' = Thrown(c, "mkdir", mk, FALSE)
                  /\ UNCHANGED <<dirExists, call>>
                  /\ UNCHANGED files
             ELSE IF rd # "ok"
             THEN /\ ret' = Thrown(c, "readdir", rd, FALSE)
                  /\ dirExists' = TRUE
                  /\ UNCHANGED call
                  /\ UNCHANGED files
             ELSE IF existingFiles # {}
             THEN /\ \E existingFile \in existingFiles :
                        /\ ret' = CacheResult(c, existingFile, characterCount)
                        /\ files' = WriteFile(files, existingFile.name, now,
                                              existingFile.content)
                  /\ dirExists' = TRUE
                  /\ UNCHANGED call
             ELSE /\ ret' = NoRet
                  /\ dirExists' = TRUE
                  /\ call' = [call EXCEPT ![p] =
                        [c EXCEPT !.pc = IF ttsClient THEN "provider" ELSE "mock",
                                  !.i = IF ttsClient THEN 1 ELSE 0]]
                  /\ UNCHANGED files
    /\ Remember(ret', {})
    /\ sweep' = NoSweep
    /\ UNCHANGED <<applied, now, ticks, env, serverPc, ttsClient, timer,
                   usageCache>>

\* generateTTS up to its first await: the directory, the file name, the
\* lookup; a hit returns, a miss goes to the provider or to the fallback
GenerateTTSStart(p, req) ==
    /\ serverPc # "crashed"
    /\ call[p].pc = "idle"
    /\ started < MaxCalls
    /\ started' = started + 1
    /\ LET voiceName == ResolveVoice(req.voiceName)
           characterCount == Length(req.text)
           cacheKey == generateCacheKey(PlainText(req.text), voiceName,
                                        req.audioConfig)
           voicePart == getSimplifiedVoiceName(voiceName)
           hashPart == HashPart(cacheKey)
           c == [Idle EXCEPT !.kind = "tts", !.req = req, !.voiceName = voiceName,
                             !.filename = TtsName(req.text, voiceName,
                                                  req.audioConfig, now),
                             !.prior = cached, !.priorDone = completed,
                             !.mockStart = now]
           existingFiles == {f \in files : MatchesCache(f, hashPart, voicePart)}
       IN  \E mk \in MkdirOutcomes, rd \in {"ok"} \cup AccessErrors(env.faulty) :
             IF mk # "ok"
             THEN /\ rd = "ok"
                  /\ ret' = Thrown(c, "mkdir", mk, FALSE)
                  /\ UNCHANGED <<dirExists, call>>
             ELSE IF rd # "ok"
             THEN /\ ret' = Thrown(c, "readdir", rd, FALSE)
                  /\ dirExists' = TRUE
                  /\ UNCHANGED call
             ELSE IF existingFiles # {}
             THEN /\ \E existingFile \in existingFiles :
                        ret' = CacheResult(c, existingFile, characterCount)
                  /\ dirExists' = TRUE
                  /\ UNCHANGED call
             ELSE /\ ret' = NoRet
                  /\ dirExists' = TRUE
                  /\ call' = [call EXCEPT ![p] =
                        [c EXCEPT !.pc = IF ttsClient THEN "provider" ELSE "mock",
                                  !.i = IF ttsClient THEN 1 ELSE 0]]
    /\ Remember(ret', {})
    /\ sweep' = NoSweep
    /\ UNCHANGED <<applied, now, ticks, env, serverPc, ttsClient, timer, files, usageCache>>

\* a catch that sends the failed request to the provider once more
AfterGoogleErrorRetry(c, outcome) ==
    [c EXCEPT !.providerError = outcome, !.paths = Append(@, "failed")]

\* catch (googleError): the call goes on with generateMockTTS for the whole
\* text, and ttsResponse will be the fallback's alone
AfterGoogleError(c, outcome) ==
    [c EXCEPT !.pc = "mock", !.providerError = outcome, !.mockStart = now,
              !.i = 0, !.audioBuffers = <<>>, !.paths = Append(@, "failed")]

\* `await ttsClient.synthesizeSpeech(...)` ends: for the whole text, or for
\* chunk i of a text of more than 5000 bytes; after the last chunk the audio
\* is concatenated.  An error drops what was synthesized so far.  paths
\* notes the provider calls of the call in their order: "provider" for one
\* that returned, "failed" for one that threw.
GenerateTTSProviderDone(p, outcome) ==
    /\ serverPc # "crashed"
    /\ call[p].pc = "provider"
    /\ call[p].kind = "tts"
    /\ LET c == call[p]
           text == c.req.text
           characterCount == Length(text)
           cfg == RequestAudioConfig(c.req.audioConfig)
           chunks == Chunks(text)
           audioChunks == Append(c.audioBuffers,
                                 ProviderAudio(ChunkText(chunks[c.i]),
                                               c.voiceName, cfg))
       IN  IF outcome = "ok" /\ ByteLength(text) > MaxRequestBytes
              /\ c.i < Len(chunks)
           THEN /\ call' = [call EXCEPT ![p] =
                      [c EXCEPT !.i = c.i + 1, !.audioBuffers = audioChunks,
                                !.paths = Append(@, "provider")]]
                /\ ret' = NoRet
                /\ sweep' = NoSweep
                /\ UNCHANGED <<files, usageCache, completed, cached>>
           ELSE IF outcome = "ok"
           THEN /\ Persist(p, [c EXCEPT !.paths = Append(@, "provider")],
                           IF ByteLength(text) > MaxRequestBytes
                           THEN ConcatAudio(audioChunks)
                           ELSE ProviderAudio(text, c.voiceName, cfg),
                           characterCount, c.voiceName,
                           calculateCostUSD(characterCount, c.voiceName),
                           c.voiceName, 10 * CeilDiv(characterCount, 10))
                /\ call' = [call EXCEPT ![p] = Idle]
           ELSE IF OnGoogleError(outcome) = "fallback"
           THEN /\ call' = [call EXCEPT ![p] = AfterGoogleError(c, outcome)]
                /\ ret' = NoRet
                /\ sweep' = NoSweep
                /\ UNCHANGED <<files, usageCache, completed, cached>>
           ELSE /\ call' = [call EXCEPT ![p] = Idle]
                /\ ret' = Thrown([c EXCEPT !.providerError = outcome,
                                           !.paths = Append(@, "failed")],
                                 "provider", outcome, FALSE)
                /\ sweep' = NoSweep
                /\ UNCHANGED <<files, usageCache, completed, cached>>
    /\ UNCHANGED <<applied, now, ticks, env, serverPc, ttsClient, timer,
                   dirExists, started>>

\* `await generateMockTTS(...)` ends, 1000 ms or more after it began
GenerateTTSMockDone(p) ==
    /\ serverPc # "crashed"
    /\ call[p].pc = "mock"
    /\ call[p].kind = "tts"
    /\ now >= call[p].mockStart + MockDelayMin
    /\ LET c == call[p]
           characterCount == Length(c.req.text)
       IN  Persist(p, c, MockAudio(c.req.text), characterCount, c.voiceName,
                   calculateCostUSD(characterCount, c.voiceName),
                   c.voiceName, 10 * MockDuration(characterCount))
    /\ call' = [call EXCEPT ![p] = Idle]
    /\ UNCHANGED <<applied, now, ticks, env, serverPc, ttsClient, timer,
                   dirExists, started>>

(* ----------------------- generateConversationTTS ---------------------- *)
RECURSIVE SumLengths(_)
\* conversationSegments.reduce((sum, segment) => sum + segment.text.length, 0)
SumLengths(segments) ==
    IF segments = <<>>
    THEN 0
    ELSE Length(Head(segments).text) + SumLengths(Tail(segments))

ConversationName(segments, t) ==
    [kind |-> "conversation", voicePart |-> "",
     hashPart |-> HashPart(generateCacheKey(JSONstringify(segments),
                                            "conversation", NoCfg)),
     timestamp |-> t]

\* the next turn of the segment loop: `if (ttsClient)` is read at each turn
NextSegment(c) ==
    [c EXCEPT !.pc = IF ttsClient THEN "provider" ELSE "mock", !.mockStart = now]

\* generateConversationTTS up to its first await
ConversationStart(p, req) ==
    /\ serverPc # "crashed"
    /\ call[p].pc = "idle"
    /\ started < MaxCalls
    /\ started' = started + 1
    /\ LET segments == req.conversationSegments
           name == ConversationName(segments, now)
           c == [Idle EXCEPT !.kind = "conversation", !.req = req,
                             !.filename = name, !.prior = cached,
                             !.priorDone = completed, !.i = 1]
           existingFiles ==
               {f \in files : MatchesCache(f, name.hashPart, "conversation")}
           totalCharacters == SumLengths(segments)
       IN  \E mk \in MkdirOutcomes, rd \in {"ok"} \cup AccessErrors(env.faulty) :
             IF mk # "ok"
             THEN /\ rd = "ok"
                  /\ ret' = Thrown(c, "mkdir", mk, FALSE)
                  /\ UNCHANGED <<dirExists, call>>
             ELSE IF rd # "ok"
             THEN /\ ret' = Thrown(c, "readdir", rd, FALSE)
                  /\ dirExists' = TRUE
                  /\ UNCHANGED call
             ELSE IF existingFiles # {}
             THEN /\ \E existingFile \in existingFiles :
                        ret' = Returned(c, TRUE, 0, existingFile.name, "",
                                        10 * CeilDiv(totalCharacters, 10),
                                        totalCharacters, FALSE)
                  /\ dirExists' = TRUE
                  /\ UNCHANGED call
             ELSE /\ ret' = NoRet
                  /\ dirExists' = TRUE
                  /\ call' = [call EXCEPT ![p] = NextSegment(c)]
    /\ Remember(ret', {})
    /\ sweep' = NoSweep
    /\ UNCHANGED <<applied, now, ticks, env, serverPc, ttsClient, timer, files, usageCache>>

\* a loop turn that pushes a pause after every segment, the last as well
PushSegmentAndPause(c, segmentResponse) ==
    LET segment == c.req.conversationSegments[c.i]
        voiceName == ResolveVoice(segment.voiceName)
    IN  [c EXCEPT
            !.audioBuffers =
                Append(Append(@, segmentResponse),
                       generateSilenceBuffer(c.req.speakerPauseDuration)),
            !.totalCharacters = @ + Length(segment.text),
            !.totalCost = @ + calculateCostUSD(Length(segment.text), voiceName),
            !.totalDuration = @ + CeilDiv(Length(segment.text), 10),
            !.i = c.i + 1]

\* a loop turn that charges every segment at the tier of the first
PushSegmentAtFirstTier(c, segmentResponse) ==
    LET segments == c.req.conversationSegments
        segment == segments[c.i]
        voiceName == ResolveVoice(segments[1].voiceName)
        pushed == Append(c.audioBuffers, segmentResponse)
    IN  [c EXCEPT
            !.audioBuffers =
                IF c.i < Len(segments)
                THEN Append(pushed,
                            generateSilenceBuffer(c.req.speakerPauseDuration))
                ELSE pushed,
            !.totalCharacters = @ + Length(segment.text),
            !.totalCost = @ + calculateCostUSD(Length(segment.text), voiceName),
            !.totalDuration = @ + CeilDiv(Length(segment.text), 10),
            !.i = c.i + 1]

\* the rest of a turn of the segment loop once segmentResponse is there:
\* the push of the audio, the pause unless the segment is the last, the sums
PushSegment(c, segmentResponse) ==
    LET segments == c.req.conversationSegments
        segment == segments[c.i]
        voiceName == ResolveVoice(segment.voiceName)
        pushed == Append(c.audioBuffers, segmentResponse)
    IN  [c EXCEPT
            !.audioBuffers =
                IF c.i < Len(segments)
                THEN Append(pushed,
                            generateSilenceBuffer(c.req.speakerPauseDuration))
                ELSE pushed,
            !.totalCharacters = @ + Length(segment.text),
            !.totalCost = @ + calculateCostUSD(Length(segment.text), voiceName),
            !.totalDuration = @ + CeilDiv(Length(segment.text), 10),
            !.i = c.i + 1]

\* the end of a loop turn: the next turn, or after the last turn the
\* concatenation and the tail of the generation; the cost of a segment whose
\* voice is not a string raises a TypeError, which ends the conversation
AfterSegment(p, c, segmentResponse) ==
    LET n == Len(c.req.conversationSegments)
        c1 == PushSegment(c, segmentResponse)
    IN  IF ~IsString(ResolveVoice(c.req.conversationSegments[c.i].voiceName))
        THEN /\ call' = [call EXCEPT ![p] = Idle]
             /\ ret' = Thrown(c, "cost", IncludesTypeError, FALSE)
             /\ sweep' = NoSweep
             /\ UNCHANGED <<files, usageCache, completed, cached>>
        ELSE IF c.i < n
        THEN /\ call' = [call EXCEPT ![p] = NextSegment(c1)]
             /\ ret' = NoRet
             /\ sweep' = NoSweep
             /\ UNCHANGED <<files, usageCache, completed, cached>>
        ELSE /\ Persist(p, c1, ConcatAudio(c1.audioBuffers), c1.totalCharacters,
                        "conversation", c1.totalCost, "",
                        10 * c1.totalDuration
                            + (n - 1) * c.req.speakerPauseDuration)
             /\ call' = [call EXCEPT ![p] = Idle]

\* a segment loop without the inner catch: the error of a segment's
\* provider call reaches the outer catch and ends the conversation
ConversationProviderDoneOrThrow(p, outcome) ==
    /\ serverPc # "crashed"
    /\ call[p].pc = "provider"
    /\ call[p].kind = "conversation"
    /\ LET c == call[p]
           segment == c.req.conversationSegments[c.i]
       IN  IF outcome = "ok"
           THEN AfterSegment(p, [c EXCEPT !.paths = Append(@, "provider")],
                             ProviderAudio(segment.text,
                                           ResolveVoice(segment.voiceName),
                                           DefaultCfg))
           ELSE /\ call' = [call EXCEPT ![p] = Idle]
                /\ ret' = Thrown([c EXCEPT !.paths = Append(@, "failed")],
                                 "provider", outcome, FALSE)
                /\ sweep' = NoSweep
                /\ UNCHANGED <<files, usageCache, completed, cached>>
    /\ UNCHANGED <<applied, now, ticks, env, serverPc, ttsClient, timer,
                   dirExists, started>>

\* `await ttsClient.synthesizeSpeech(segmentRequest)` ends; an error sends
\* this segment to the fallback generator.  paths notes for each segment
\* how its audio came about: "provider", by its provider call; "failed", by
\* the fallback after its provider call failed; "noClient", by the fallback
\* because ttsClient was not set at its turn.
ConversationProviderDone(p, outcome) ==
    /\ serverPc # "crashed"
    /\ call[p].pc = "provider"
    /\ call[p].kind = "conversation"
    /\ LET c == call[p]
           segment == c.req.conversationSegments[c.i]
       IN  IF outcome = "ok"
           THEN AfterSegment(p, [c EXCEPT !.paths = Append(@, "provider")],
                             ProviderAudio(segment.text,
                                           ResolveVoice(segment.voiceName),
                                           DefaultCfg))
           ELSE /\ call' = [call EXCEPT ![p] =
                      [c EXCEPT !.pc = "mock", !.mockStart = now,
                                !.paths = Append(@, "failed")]]
                /\ ret' = NoRet
                /\ sweep' = NoSweep
                /\ UNCHANGED <<files, usageCache, completed, cached>>
    /\ UNCHANGED <<applied, now, ticks, env, serverPc, ttsClient, timer,
                   dirExists, started>>

\* `await generateMockTTS(...)` for the segment ends
ConversationMockDone(p) ==
    /\ serverPc # "crashed"
    /\ call[p].pc = "mock"
    /\ call[p].kind = "conversation"
    /\ now >= call[p].mockStart + MockDelayMin
    /\ LET c == call[p]
           c1 == IF Len(c.paths) < c.i
                 THEN [c EXCEPT !.paths = Append(@, "noClient")]
                 ELSE c
       IN  AfterSegment(p, c1, MockAudio(c.req.conversationSegments[c.i].text))
    /\ UNCHANGED <<applied, now, ticks, env, serverPc, ttsClient, timer,
                   dirExists, started>>

(* --------------------------- the requests ----------------------------- *)
\* single-segment requests: a short text in a standard and in a premium
\* voice, and a text that is sent in chunks
TtsRequests ==
    {TtsRequest("T1", "female", DefaultCfg, Anonymous),
     TtsRequest("T1", "neural-male", DefaultCfg, "u1"),
     TtsRequest("T3", "male", DefaultCfg, Anonymous)}

\* single-segment requests that overlap: two of them for the same content
OverlappingRequests ==
    {TtsRequest("T1", "female", DefaultCfg, Anonymous),
     TtsRequest("T1", "en-US-Standard-C", DefaultCfg, "u1"),
     TtsRequest("T1", "neural-male", DefaultCfg, "u1")}

Conversation ==
    <<[text |-> "S3", voiceName |-> "neural-female"],
      [text |-> "S4", voiceName |-> "male"]>>

ConversationRequests == {ConversationRequest(Conversation, "u1", 5)}

\* a request is taken by the first free slot
FirstIdle(p) ==
    /\ call[p].pc = "idle"
    /\ \A q \in Procs : q < p => call[q].pc # "idle"

\* the server serves requests, which may overlap
Next ==
    \/ \E d \in Steps : Tick(d)
    \/ TimerSweep
    \/ \E p \in Procs, req \in OverlappingRequests :
          FirstIdle(p) /\ GenerateTTSStart(p, req)
    \/ \E p \in Procs, outcome \in {"ok", "other"} :
          GenerateTTSProviderDone(p, outcome)
    \/ \E p \in Procs : GenerateTTSMockDone(p)
    \/ \E p \in Procs, req \in ConversationRequests :
          FirstIdle(p) /\ ConversationStart(p, req)
    \/ \E p \in Procs, outcome \in {"ok", "other"} :
          ConversationProviderDone(p, outcome)
    \/ \E p \in Procs : ConversationMockDone(p)

Spec == Init /\ [][Next]_vars

\* the server starts, and serves requests one at a time meanwhile and after
NextStartup ==
    \/ \E d \in Steps : Tick(d)
    \/ ServerDatabaseDone
    \/ \E ok \in BOOLEAN : ServerImportDone(ok)
    \/ ServerListVoicesDone
    \/ TimerSweep
    \/ \E req \in TtsRequests : GenerateTTSStart(1, req)
    \/ \E outcome \in {"ok"} \cup ProviderErrors :
          GenerateTTSProviderDone(1, outcome)
    \/ GenerateTTSMockDone(1)
    \/ \E req \in ConversationRequests : ConversationStart(1, req)
    \/ \E outcome \in {"ok", "other"} : ConversationProviderDone(1, outcome)
    \/ ConversationMockDone(1)

SpecStartup == InitStartup /\ [][NextStartup]_vars

\* a single-segment request, and those that differ from it in one field
KeyRequest == TtsRequest("T1", "female", DefaultCfg, Anonymous)

KeyRequests ==
    {KeyRequest,
     [KeyRequest EXCEPT !.text = "T2"],
     [KeyRequest EXCEPT !.voiceName = "en-US-Standard-C"],
     [KeyRequest EXCEPT !.voiceName = "narrator"],
     [KeyRequest EXCEPT !.voiceName = "male"],
     [KeyRequest EXCEPT !.audioConfig.speakingRate = "2"],
     [KeyRequest EXCEPT !.audioConfig.speakingRate = Undefined],
     [KeyRequest EXCEPT !.audioConfig.pitch = "5"],
     [KeyRequest EXCEPT !.audioConfig.volumeGainDb = "6"]}

\* the server serves single-segment requests one after the other
NextKey ==
    \/ \E d \in Steps : Tick(d)
    \/ TimerSweep
    \/ \E req \in KeyRequests : GenerateTTSStart(1, req)
    \/ \E outcome \in {"ok", "other"} : GenerateTTSProviderDone(1, outcome)
    \/ GenerateTTSMockDone(1)

SpecKey == InitKey /\ [][NextKey]_vars

\* single-segment requests for texts of more than 5000 bytes, and a short one
ChunkRequests ==
    {TtsRequest("T3", "male", DefaultCfg, Anonymous),
     TtsRequest("T4", "female", DefaultCfg, "u1"),
     TtsRequest("T5", "neural-female", DefaultCfg, Anonymous),
     TtsRequest("T2", "female", DefaultCfg, Anonymous)}

\* the server serves long and short texts one after the other
NextChunk ==
    \/ \E d \in Steps : Tick(d)
    \/ TimerSweep
    \/ \E req \in ChunkRequests : GenerateTTSStart(1, req)
    \/ \E outcome \in {"ok", "other"} : GenerateTTSProviderDone(1, outcome)
    \/ GenerateTTSMockDone(1)

SpecChunk == InitKey /\ [][NextChunk]_vars

\* requests of both routes, by a user and by nobody: conversations of one,
\* two and three segments, of mixed tiers and with a voice outside VOICE_MAP
RouteTtsRequests ==
    {TtsRequest("T1", "female", DefaultCfg, Anonymous),
     TtsRequest("T1", "female", DefaultCfg, "u1"),
     TtsRequest("T2", "neural-male", DefaultCfg, "u1")}

RouteConversationRequests ==
    {ConversationRequest(<<[text |-> "S5", voiceName |-> "female"]>>,
                         Anonymous, 5),
     ConversationRequest(Conversation, "u1", 5),
     ConversationRequest(<<[text |-> "S3", voiceName |-> "neural-female"],
                           [text |-> "S4", voiceName |-> "en-US-Standard-B"],
                           [text |-> "S5", voiceName |-> "en-US-Wavenet-A"]>>,
                         "u1", 1)}

\* the server serves the requests of both routes one after the other
NextRoutes ==
    \/ \E d \in Steps : Tick(d)
    \/ TimerSweep
    \/ \E req \in RouteTtsRequests : GenerateTTSStart(1, req)
    \/ \E outcome \in {"ok", "other"} : GenerateTTSProviderDone(1, outcome)
    \/ GenerateTTSMockDone(1)
    \/ \E req \in RouteConversationRequests : ConversationStart(1, req)
    \/ \E outcome \in {"ok", "other"} : ConversationProviderDone(1, outcome)
    \/ ConversationMockDone(1)

SpecRoutes == Init /\ [][NextRoutes]_vars

\* requests of a user and of nobody, among them a text and a segment whose
\* voice token names a member of Object.prototype
UsageTtsRequests ==
    {TtsRequest("T2", "female", DefaultCfg, Anonymous),
     TtsRequest("T1", "female", DefaultCfg, "u1"),
     TtsRequest("T2", "neural-male", DefaultCfg, "u1"),
     TtsRequest("T2", "constructor", DefaultCfg, "u1")}

UsageConversationRequests ==
    {ConversationRequest(Conversation, "u1", 5),
     ConversationRequest(<<[text |-> "S5", voiceName |-> "toString"]>>, "u1", 5)}

\* the server serves requests one after the other, and usage queries
NextUsage ==
    \/ \E d \in Steps : Tick(d)
    \/ TimerSweep
    \/ \E req \in UsageTtsRequests : GenerateTTSStart(1, req)
    \/ \E outcome \in {"ok", "other"} : GenerateTTSProviderDone(1, outcome)
    \/ GenerateTTSMockDone(1)
    \/ \E req \in UsageConversationRequests : ConversationStart(1, req)
    \/ \E outcome \in {"ok", "other"} : ConversationProviderDone(1, outcome)
    \/ ConversationMockDone(1)
    \/ \E userId \in UserIds, period \in Periods, tz \in TimeZones :
          GetTTSUsage(userId, period, tz)

SpecUsage == Init /\ [][NextUsage]_vars

\* conversations of the same segments with pauses of 0.5 s and of 1 s, and
\* one of the same segments in the other order
PauseRequests ==
    {ConversationRequest(Conversation, Anonymous, 5),
     ConversationRequest(Conversation, Anonymous, 10),
     ConversationRequest(<<Conversation[2], Conversation[1]>>, Anonymous, 5)}

\* the server serves conversations one after the other
NextPause ==
    \/ \E d \in Steps : Tick(d)
    \/ TimerSweep
    \/ \E req \in PauseRequests : ConversationStart(1, req)
    \/ \E outcome \in {"ok", "other"} : ConversationProviderDone(1, outcome)
    \/ ConversationMockDone(1)

SpecPause == InitKey /\ [][NextPause]_vars

(* ------------------- the service's functions, applied ----------------- *)
\* the voice names request validation accepts as legacy provider ids:
\* /^en-US-(Standard|Wavenet|Neural2)-(A|B|C|D|F)$/
LegacyPattern ==
    {"en-US-" \o q \o "-" \o l :
        q \in {"Standard", "Wavenet", "Neural2"}, l \in {"A", "B", "C", "D", "F"}}

\* voice tokens a caller of the service may pass
VoiceTokens ==
    DOMAIN VOICE_MAP \cup LegacyPattern \cup {"xyz", "narrator", ""}
        \cup ObjectPrototypeKeys

\* character counts, up to the 100,000 the route accepts
CharacterCounts == {0, 1, 11, 313, 625, 1250, 2500, 8750, 50000, 100000}

StandardVoices == {"en-US-Standard-C", "en-US-Standard-B"}
PremiumVoices == {"en-US-Neural2-F", "en-US-Neural2-D"}

\* the server is up and serves no request
InitApplied ==
    \E s \in {t \in ServingStates : t.credsJson = "absent"} : Serving(s, FALSE, {})

\* `VOICE_MAP[token] || VOICE_MAP['female']` as generateTTS and
\* generateConversationTTS evaluate it; raises tells whether the cost
\* computation that follows on a miss raises a TypeError on the result
ResolveVoiceApplied(token) ==
    /\ applied' = [NotApplied EXCEPT !.fn = "ResolveVoice", !.token = token,
                                     !.voiceName = ResolveVoice(token),
                                     !.raises = ~IsString(ResolveVoice(token))]
    /\ UNCHANGED <<now, ticks, env, serverPc, ttsClient, timer, dirExists, files,
                   usageCache, call, started, ret, sweep, completed, cached>>

\* calculateCostUSD for a characters, b characters and a + b characters, in
\* a standard and in a premium voice
CostsOf(a, b, voiceName) ==
    [a |-> calculateCostUSD(a, voiceName), b |-> calculateCostUSD(b, voiceName),
     sum |-> calculateCostUSD(a + b, voiceName)]

CalculateCostUSDApplied(a, b, standardVoice, premiumVoice) ==
    /\ applied' = [NotApplied EXCEPT !.fn = "calculateCostUSD", !.a = a, !.b = b,
                                     !.standardVoice = standardVoice,
                                     !.premiumVoice = premiumVoice,
                                     !.standard = CostsOf(a, b, standardVoice),
                                     !.premium = CostsOf(a, b, premiumVoice)]
    /\ UNCHANGED <<now, ticks, env, serverPc, ttsClient, timer, dirExists, files,
                   usageCache, call, started, ret, sweep, completed, cached>>

NextApplied ==
    \/ \E token \in VoiceTokens : ResolveVoiceApplied(token)
    \/ \E a, b \in CharacterCounts, standardVoice \in StandardVoices,
          premiumVoice \in PremiumVoices :
          CalculateCostUSDApplied(a, b, standardVoice, premiumVoice)

SpecApplied == InitApplied /\ [][NextApplied]_vars

(* ------------------------------ properties ---------------------------- *)
\* the retention window of the cache, in ms
SevenDays == 7 * 24 * 60 * 60 * 1000

\* the call that has just ended returned a single-segment result
TtsResult == ret.status = "ok" /\ ret.kind = "tts"

\* C1: a generateTTS call that starts after a call with the same text, voice
\* token and audio configuration has returned a result, no sweep having since
\* deleted a cache file of that fingerprint, and that returns a result,
\* returns cacheHit = true and estimatedCostUSD = 0, whatever other requests
\* and sweeps lie in between.
C1_RepeatIsHitUntilEvicted ==
    TtsResult /\ Args(ret.req) \in ret.prior
        => ret.cacheHit /\ ret.estimatedCostUSD = 0

\* a repeated request hits the file an earlier request of this run has written
C1_RepeatHits ==
    /\ TtsResult
    /\ Args(ret.req) \in ret.prior
    /\ ret.cacheHit
    /\ ret.file.timestamp >= StartTime

\* C1 as the specification words it: every generateTTS call after a
\* completed call with the same arguments is a hit at cost 0, whatever the
\* sweeps in between.
C1_RepeatIsHitAlways ==
    TtsResult /\ Args(ret.req) \in ret.priorDone
        => ret.cacheHit /\ ret.estimatedCostUSD = 0

RECURSIVE SegmentsCost(_)
\* the cost model applied to each segment and summed
SegmentsCost(segments) ==
    IF segments = <<>>
    THEN 0
    ELSE calculateCostUSD(Length(Head(segments).text),
                          ResolveVoice(Head(segments).voiceName))
         + SegmentsCost(Tail(segments))

\* C2: every result of generateTTS and generateConversationTTS has cost 0 if
\* it is a cache hit, and if it is a miss the cost the cost model gives for
\* this very request.
C2_CostFollowsCacheHit ==
    ret.status = "ok" =>
        IF ret.cacheHit
        THEN ret.estimatedCostUSD = 0
        ELSE IF ret.kind = "tts"
        THEN ret.estimatedCostUSD =
                 calculateCostUSD(Length(ret.req.text),
                                  ResolveVoice(ret.req.voiceName))
        ELSE ret.estimatedCostUSD = SegmentsCost(ret.req.conversationSegments)

\* a miss is charged while a request of another price is in flight
C2_MissCharged ==
    /\ TtsResult
    /\ ~ret.cacheHit
    /\ ret.estimatedCostUSD > 0
    /\ \E p \in Procs :
          /\ call[p].pc # "idle"
          /\ call[p].kind = "tts"
          /\ calculateCostUSD(Length(call[p].req.text), call[p].voiceName)
                 # ret.estimatedCostUSD

\* the file the result names holds the fallback generator's audio
FallbackStored ==
    \E f \in files : f.name = ret.file /\ f.content.src = "mock"

C5_ProviderErrorsReachRoute ==
    ret.kind = "tts" =>
        /\ ret.providerError = "quota" => ret.http = 429
        /\ ret.providerError = "authentication" => ret.http = 401
        /\ ret.providerError = "billing" => ret.http = 402

\* the fields of a single-segment request as the caller gives them ...
Fields(a) ==
    <<a.text, a.voiceName, a.audioConfig.speakingRate, a.audioConfig.pitch,
      a.audioConfig.volumeGainDb>>

\* ... and with the provider voice id the voice token resolves to
ResolvedFields(a) ==
    <<a.text, ResolveVoice(a.voiceName), a.audioConfig.speakingRate,
      a.audioConfig.pitch, a.audioConfig.volumeGainDb>>

DifferInOne(x, y) == Cardinality({i \in 1..5 : x[i] # y[i]}) = 1

\* C3: a single-segment request that differs from every request answered
\* before it in exactly one of text, resolved provider voice id, speakingRate,
\* pitch and volumeGainDb has another fingerprint than they and is a miss.
C3_OneResolvedFieldApartMisses ==
    /\ TtsResult
    /\ ret.priorDone # {}
    /\ \A a \in ret.priorDone :
          DifferInOne(ResolvedFields(a), ResolvedFields(Args(ret.req)))
    => ~ret.cacheHit

\* the second request differs from the first in the pitch alone, and misses
C3_OtherPitchMisses ==
    /\ TtsResult
    /\ ~ret.cacheHit
    /\ \E a \in ret.priorDone :
          /\ DifferInOne(ResolvedFields(a), ResolvedFields(Args(ret.req)))
          /\ a.audioConfig.pitch # ret.req.audioConfig.pitch

\* C3 as the specification words it: a request that differs from the
\* requests before it in exactly one of text, voice token, speakingRate, pitch
\* and volumeGainDb is a miss.
C3_OneFieldApartMisses ==
    /\ TtsResult
    /\ ret.priorDone # {}
    /\ \A a \in ret.priorDone : DifferInOne(Fields(a), Fields(Args(ret.req)))
    => ~ret.cacheHit

\* C6: two overlapping generateTTS calls with the same arguments that both
\* miss write two files of distinct names.
C6_OverlappingCallsOwnFiles ==
    \A p, q \in Procs :
        /\ p # q
        /\ call[p].kind = "tts"
        /\ call[q].kind = "tts"
        /\ call[p].pc # "idle"
        /\ call[q].pc # "idle"
        /\ Args(call[p].req) = Args(call[q].req)
        => call[p].filename # call[q].filename

\* C7: no sweep, at start-up, by the timer or after a request, deletes a
\* file whose age is at most seven days.
C7_YoungFilesSurvive ==
    \A f \in sweep.deleted :
        /\ sweep.at - f.mtime > SevenDays
        /\ f \notin files

\* a sweep deletes a file while a file within the window stays
C7_SweepSparesYoung ==
    /\ sweep.kind # "none"
    /\ sweep.deleted # {}
    /\ \E f \in files : sweep.at - f.mtime <= SevenDays

\* after the sweep no file older than seven days is left
NoOldFileLeft == \A f \in files : sweep.at - f.mtime <= SevenDays

C9_SweepErrorsStayInside ==
    /\ ~sweep.thrown
    /\ serverPc # "crashed"
    /\ ret.failedOp # "sweep"
    /\ ret.sweepError => ret.status = "ok" /\ ~ret.cacheHit

\* the sweep after a synthesis fails, and the request returns its result
C9_RequestOutlivesSweepError ==
    /\ ret.status = "ok"
    /\ ret.sweepError
    /\ sweep.kind = "request"
    /\ sweep.error

\* C10: once a server process has started, whatever its provider
\* configuration, the start-up sweep has run and the six-hour timer is armed.
C10_SweepsWhateverTheProvider == serverPc = "up" => timer.armed

\* C13: for a fixed voice, calculateCostUSD is linear and strictly monotonic
\* in the character count: the cost of a + b characters is the cost of a
\* plus the cost of b, and fewer characters cost less.
C13_CostLinearAndMonotonic ==
    applied.fn = "calculateCostUSD" =>
        \A t \in {applied.standard, applied.premium} :
            /\ t.sum = t.a + t.b
            /\ applied.a < applied.b => t.a < t.b

\* C14: for every character count, calculateCostUSD returns for a premium
\* voice exactly four times what it returns for a standard voice.
C14_PremiumIsFourTimesStandard ==
    applied.fn = "calculateCostUSD" =>
        applied.premium.a = 4 * applied.standard.a

\* C15: every voice token that is not a key of VOICE_MAP resolves to
\* en-US-Standard-C, and the generation raises no error on it.
C15_UnknownTokensResolveToDefault ==
    applied.fn = "ResolveVoice" /\ applied.token \notin DOMAIN VOICE_MAP =>
        /\ applied.voiceName = "en-US-Standard-C"
        /\ ~applied.raises

\* C16: every voice token of the legacy provider-id pattern that request
\* validation accepts resolves to itself.
C16_LegacyTokensPassThrough ==
    applied.fn = "ResolveVoice" /\ applied.token \in LegacyPattern =>
        applied.voiceName = applied.token

\* the call is at a provider call for a chunk of its text
ChunkedCall(c) ==
    /\ c.kind = "tts"
    /\ c.pc = "provider"
    /\ ByteLength(c.req.text) > MaxRequestBytes

\* C18: every chunk generateTTS sends to the provider is at most 4500 bytes
\* long.
C18_ChunksWithinThreshold ==
    \A p \in Procs :
        ChunkedCall(call[p]) =>
            ChunkBytes(Chunks(call[p].req.text)[call[p].i]) <= 4500

RECURSIVE Flatten(_)
\* the sentences of the chunks, one chunk after the other
Flatten(chunks) ==
    IF chunks = <<>> THEN <<>> ELSE Head(chunks) \o Flatten(Tail(chunks))

\* the provider's audio of the first n chunks of a request, in chunk order
ChunkAudios(req, n) ==
    [k \in 1..n |->
        ProviderAudio(ChunkText(Chunks(req.text)[k]), ResolveVoice(req.voiceName),
                      RequestAudioConfig(req.audioConfig))]

\* C19: when generateTTS chunks a text, every non-blank sentence is in
\* exactly one chunk and the sentences keep their order across the chunks;
\* the provider is called once per chunk in chunk order (the responses
\* received when chunk i is sent are those of chunks 1 .. i-1, in order); and
\* the audio stored for the provider's responses is their concatenation in
\* chunk order.
C19_ChunksKeepSentencesInOrder ==
    /\ \A p \in Procs :
          ChunkedCall(call[p]) =>
              LET c == call[p]
                  chunks == Chunks(c.req.text)
              IN  /\ Flatten(chunks) = SelectSeq(Split(c.req.text), NonBlank)
                  /\ \A k \in 1..Len(chunks) : chunks[k] # <<>>
                  /\ c.i \in 1..Len(chunks)
                  /\ c.audioBuffers = ChunkAudios(c.req, c.i - 1)
    /\ TtsResult /\ ~ret.cacheHit /\ ByteLength(ret.req.text) > MaxRequestBytes
          => \A f \in files :
                f.name = ret.file /\ f.content.src # "mock" =>
                    f.content = ConcatAudio(ChunkAudios(ret.req,
                                                Len(Chunks(ret.req.text))))

\* a text of three chunks, one of its pieces blank, is stored as the
\* concatenation of three responses
C19_ThreeChunksStored ==
    /\ TtsResult
    /\ ~ret.cacheHit
    /\ Len(Split(ret.req.text)) = 4
    /\ Len(Chunks(ret.req.text)) = 3
    /\ \E f \in files :
          /\ f.name = ret.file
          /\ f.content.src = "concat"
          /\ Len(f.content.parts) = 3
          /\ f.content.parts[3].text = "g."

\* the call that has just ended returned the result of a conversation
\* that was synthesized
ConversationMiss == ret.status = "ok" /\ ret.kind = "conversation" /\ ~ret.cacheHit

\* the audio of a segment: the provider's, or the fallback generator's
SegmentAudios(segment) ==
    {ProviderAudio(segment.text, ResolveVoice(segment.voiceName), DefaultCfg),
     MockAudio(segment.text)}

\* C11: on a conversation miss with n segments the stored audio is segment
\* 1's audio, a pause, segment 2's audio, a pause, ..., segment n's audio:
\* 2n - 1 buffers, the audio of segment k at place 2k - 1, a pause at
\* each place 2k for k < n, and none after the last segment.
C11_SegmentsInOrderPausesBetween ==
    ConversationMiss =>
        LET segments == ret.req.conversationSegments
            n == Len(segments)
        IN  \A f \in files :
                f.name = ret.file =>
                    /\ f.content.src = "concat"
                    /\ Len(f.content.parts) = 2 * n - 1
                    /\ \A k \in 1..n :
                          f.content.parts[2 * k - 1] \in SegmentAudios(segments[k])
                    /\ \A k \in 1..(n - 1) :
                          f.content.parts[2 * k] =
                              generateSilenceBuffer(ret.req.speakerPauseDuration)

\* a conversation of three segments is stored as five buffers
C11_ThreeSegmentsTwoPauses ==
    /\ ConversationMiss
    /\ Len(ret.req.conversationSegments) = 3
    /\ \E f \in files :
          /\ f.name = ret.file
          /\ Len(f.content.parts) = 5
          /\ f.content.parts[2].src = "silence"
          /\ f.content.parts[4].src = "silence"
          /\ f.content.parts[5].src = "provider"
          /\ f.content.parts[5].text = "S5"

\* the cost of a text of the given length at a rate in USD per million
\* characters, rounded to hundredths of USD
RoundedCost(length, rate) == (2 * length * rate + 10000) \div 20000

FailedSegments(paths) == {k \in 1..Len(paths) : paths[k] = "failed"}

\* the stored audio holds all n segments: the fallback's audio for those of
\* the given places, the provider's audio for the others
StoredWithFallbackAt(places) ==
    LET segments == ret.req.conversationSegments
    IN  \E f \in files :
            /\ f.name = ret.file
            /\ Len(f.content.parts) = 2 * Len(segments) - 1
            /\ \A k \in 1..Len(segments) :
                  f.content.parts[2 * k - 1] =
                      IF k \in places
                      THEN MockAudio(segments[k].text)
                      ELSE ProviderAudio(segments[k].text,
                                         ResolveVoice(segments[k].voiceName),
                                         DefaultCfg)

C20_HistoryRecordPerGeneration ==
    ret.status = "ok" =>
        IF ret.req.userId = Anonymous
        THEN ret.emitted = <<>>
        ELSE IF ret.kind = "tts"
        THEN /\ Len(ret.emitted) = 1
             /\ ret.emitted[1].table = "audio_history"
             /\ ret.emitted[1].userId = ret.req.userId
             /\ ret.emitted[1].audioFilename = ret.file
             /\ ret.cacheHit => ret.emitted[1].estimatedCostUSD = 0
             /\ ~ret.cacheHit =>
                   ret.emitted[1].estimatedCostUSD = ret.estimatedCostUSD
        ELSE IF ret.cacheHit
        THEN ret.emitted = <<>>
        ELSE /\ Len(ret.emitted) = 1
             /\ ret.emitted[1].table = "conversation_history"
             /\ ret.emitted[1].userId = ret.req.userId
             /\ ret.emitted[1].audioFilename = ret.file

\* a user's request hits the file an anonymous request has written, and is
\* recorded at cost 0
C20_HitRecordedAtNoCost ==
    /\ TtsResult
    /\ ret.cacheHit
    /\ ret.req.userId = "u1"
    /\ ret.file.timestamp >= StartTime
    /\ Len(ret.emitted) = 1
    /\ ret.emitted[1].estimatedCostUSD = 0
    /\ ret.emitted[1].characterCount = Length(ret.req.text)

\* a generation has just returned the result of a synthesis
MissResult == ret.status = "ok" /\ ~ret.cacheHit

\* the bucket of a user and the day of time t, as the tracker holds it
Bucket(usage, userId, t) ==
    IF <<userId, Today(t)>> \in DOMAIN usage
    THEN usage[<<userId, Today(t)>>]
    ELSE [totalCharacters |-> 0, totalRequests |-> 0, totalCostUSD |-> 0]

\* the window of the query contains the bucket of the current day
WindowHasToday(period, t, tz) ==
    /\ Today(t) * 24 >= UsageWindow(period, t, tz).startDate
    /\ Today(t) * 24 < UsageWindow(period, t, tz).endDate

\* C21: a step in which a generation by the anonymous subject of n characters
\* returns as a cache miss raises what a usage query for the anonymous subject
\* reports, over every window that contains the current day, by 1 request
\* and by n characters.
C21_AnonymousMissIsCounted ==
    [][MissResult' /\ ret'.req.userId = Anonymous =>
          \A period \in Periods, tz \in TimeZones :
              WindowHasToday(period, now, tz) =>
                  LET before == getTTSUsage(usageCache, Anonymous, period, now, tz)
                      after == getTTSUsage(usageCache', Anonymous, period, now', tz)
                  IN  /\ after.totalRequests = before.totalRequests + 1
                      /\ after.totalCharacters =
                             before.totalCharacters + ret'.characterCount]_vars

\* the buckets other than that of the user and the day of time t are the
\* same in both trackers
SameElsewhere(before, after, userId, t) ==
    /\ DOMAIN after = DOMAIN before \cup {<<userId, Today(t)>>}
    /\ \A k \in DOMAIN before :
          k # <<userId, Today(t)>> => after[k] = before[k]

\* C22: the usage tracker changes only in a step in which a generation by a
\* subject other than the anonymous one returns as a cache miss, and then
\* only in the bucket of that subject and the current day: a generation by
\* the anonymous subject, a cache hit, a usage query and a generation that
\* fails with an error leave every bucket as it is.
C22_TrackerChangesOnKnownMissOnly ==
    [][usageCache' # usageCache =>
          /\ MissResult'
          /\ ret'.req.userId # Anonymous
          /\ SameElsewhere(usageCache, usageCache', ret'.req.userId, now')]_vars

\* C23: a step in which generateTTS or generateConversationTTS returns a
\* cache hit is the step in which the call began: the call takes no place
\* at the provider or the fallback generator, no provider error lies behind
\* the result, no sweep runs, and the cache directory and its files are
\* what they were.
C23_HitLeavesCacheAlone ==
    [][ret'.status = "ok" /\ ret'.cacheHit =>
          /\ call' = call
          /\ started' = started + 1
          /\ ret'.paths = <<>>
          /\ ret'.providerError = "none"
          /\ sweep' = NoSweep
          /\ files' = files
          /\ dirExists' = dirExists]_vars

\* a conversation is answered from the file an earlier request has written,
\* while a file older than the window lies in the directory unswept
C23_ConversationHitBesideOldFile ==
    /\ ret.status = "ok"
    /\ ret.kind = "conversation"
    /\ ret.cacheHit
    /\ \E f \in files : f.name = ret.file /\ f.mtime >= StartTime
    /\ \E f \in files : Expired(f, now)
    /\ \A p \in Procs : call[p].pc = "idle"

\* the provider calls noted in paths end with the one that failed, and no
\* other of them failed
FailedLast(paths) == FailedSegments(paths) = {Len(paths)}

\* C24: within one generateTTS call the first provider call that fails, be
\* it for the whole text or for chunk k, is the last provider call: the call
\* goes to the fallback generator with none of the chunks' audio kept, and
\* the artifact it stores is the fallback's audio for the whole text.
C24_FirstFailureEndsProviderCalls ==
    /\ \A p \in Procs :
          call[p].kind = "tts" /\ call[p].providerError # "none" =>
              /\ call[p].pc = "mock"
              /\ call[p].audioBuffers = <<>>
              /\ FailedLast(call[p].paths)
    /\ \A p \in Procs :
          call[p].kind = "tts" /\ call[p].pc = "provider" =>
              /\ Len(call[p].paths) = call[p].i - 1
              /\ FailedSegments(call[p].paths) = {}
    /\ ret.kind = "tts" /\ ret.providerError # "none" =>
          /\ FailedLast(ret.paths)
          /\ ret.status = "ok" =>
                /\ ~ret.cacheHit
                /\ \A f \in files :
                      f.name = ret.file => f.content = MockAudio(ret.req.text)
                /\ \E f \in files : f.name = ret.file

\* the provider returns the audio of the first of three chunks and fails
\* on the second: the third is never sent, and the fallback's audio for the
\* whole text is stored
C24_SecondChunkFails ==
    /\ TtsResult
    /\ Len(Chunks(ret.req.text)) = 3
    /\ ret.paths = <<"provider", "failed">>
    /\ \E f \in files :
          /\ f.name = ret.file
          /\ f.content = MockAudio(ret.req.text)
          /\ f.content.n = MockDuration(Length(ret.req.text))

\* no counter of a bucket is lower in the second tracker than in the first
NoCounterLower(before, after) ==
    \A k \in DOMAIN before :
        /\ k \in DOMAIN after
        /\ after[k].totalRequests >= before[k].totalRequests
        /\ after[k].totalCharacters >= before[k].totalCharacters

\* C25: updates of the usage tracker are atomic with respect to other
\* requests.  The step in which a generation by a subject other than the
\* anonymous one returns as a cache miss finds the bucket of the subject and
\* the day as the generations that returned before it have left it, and
\* raises totalRequests by 1 and totalCharacters by the generation's
\* characters, whatever other generations are in flight; and no step lowers
\* a counter.  So no increment is overwritten, and the totals are never
\* lower than the number and size of the cache-miss generations that have
\* returned.
C25_IncrementsAreNotLost ==
    [][/\ NoCounterLower(usageCache, usageCache')
       /\ MissResult' /\ ret'.req.userId # Anonymous =>
             LET before == Bucket(usageCache, ret'.req.userId, now)
                 after == Bucket(usageCache', ret'.req.userId, now')
             IN  /\ after.totalRequests = before.totalRequests + 1
                 /\ after.totalCharacters =
                        before.totalCharacters + ret'.characterCount]_vars

\* two single-segment generations by the subject u1 (the requests of the
\* anonymous subject are those in the voice "female") have both returned as
\* cache misses, each with a file of its own, the one that returned last
\* having begun before the other returned
OverlappingMissesReturned ==
    /\ TtsResult
    /\ ~ret.cacheHit
    /\ ret.req.userId = "u1"
    /\ ret.priorDone = {}
    /\ Cardinality(completed) = 2
    /\ \A a \in completed : a.voiceName # "female"
    /\ Cardinality({f \in files : f.name.timestamp >= StartTime}) = 2
    /\ \A p \in Procs : call[p].pc = "idle"

\* two overlapping generations of 1250 characters each by one subject have
\* returned, and the bucket counts both
C25_BothOverlappingCounted ==
    /\ OverlappingMissesReturned
    /\ Bucket(usageCache, "u1", now).totalRequests = 2
    /\ Bucket(usageCache, "u1", now).totalCharacters = 2500

\* C25 as the specification words it, for the interleaving it describes:
\* when two generations by one subject on one day overlap and both return
\* as cache misses, one increment is overwritten, and totalRequests and
\* totalCharacters are lower than the number and size of the two.
C25_OverlappingIncrementLost ==
    OverlappingMissesReturned =>
        /\ Bucket(usageCache, "u1", now).totalRequests < 2
        /\ Bucket(usageCache, "u1", now).totalCharacters < 2500

\* C26: whenever generateTTS or generateConversationTTS returns a result,
\* hit or miss, the file the returned audioUrl names is in the cache
\* directory at that moment, whatever other requests are in flight and
\* whatever sweeps have run, the sweep of the call itself among them.
C26_ReturnedFileExists ==
    ret.status = "ok" =>
        /\ dirExists
        /\ \E f \in files : f.name = ret.file

\* a generation returns the file it has written although the sweep it has
\* triggered has just deleted another file, while another call is in flight
C26_OwnSweepSparesOwnFile ==
    /\ MissResult
    /\ sweep.kind = "request"
    /\ sweep.deleted # {}
    /\ \E p \in Procs : call[p].pc # "idle"
    /\ \E f \in files : f.name = ret.file /\ f.mtime = now

\* the fingerprint a file was written for: that of a single-segment request
\* or that of a conversation
Fingerprint(f) == <<f.name.kind, f.name.hashPart>>

\* C27: when requests are served one after the other, the cache directory
\* never holds two files of one fingerprint: a request for content that is
\* cached creates no second file.
C27_OneFilePerFingerprint ==
    \A f, g \in files : Fingerprint(f) = Fingerprint(g) => f = g

\* a request has been answered from the file of its fingerprint, at a time
\* later than that file was written, and two fingerprints are cached
C27_RepeatAddsNoFile ==
    /\ ret.status = "ok"
    /\ ret.cacheHit
    /\ ret.file.timestamp >= StartTime
    /\ now > ret.file.timestamp
    /\ Cardinality(files) = 2
    /\ Cardinality({Fingerprint(f) : f \in files}) = 2

\* C28: for every subject other than the anonymous one and every day, the
\* totalCostUSD of the bucket is the sum of the estimatedCostUSD returned
\* to the subject by its cache-miss generations of that day, single-segment
\* and conversation: the bucket starts at 0, and the step in which such a
\* generation returns raises it by the cost the generation returns.
C28_TrackedCostIsReturnedCost ==
    [][MissResult' /\ ret'.req.userId # Anonymous =>
          Bucket(usageCache', ret'.req.userId, now').totalCostUSD =
              Bucket(usageCache, ret'.req.userId, now).totalCostUSD
                  + ret'.estimatedCostUSD]_vars

\* the audio is one that generateConversationTTS assembles for the segments
\* and the pause: the segments' audio in order, the pause's silence between
AssembledFor(content, segments, pause) ==
    /\ content.src = "concat"
    /\ Len(content.parts) = 2 * Len(segments) - 1
    /\ \A k \in 1..Len(segments) :
          content.parts[2 * k - 1] \in SegmentAudios(segments[k])
    /\ \A k \in 1..(Len(segments) - 1) :
          content.parts[2 * k] = generateSilenceBuffer(pause)

\* C29: the artifact a generateConversationTTS call returns with
\* cacheHit = true was assembled for the ordered segment list and the
\* speakerPauseDuration of this very request.
C29_HitIsForSameSegmentsAndPause ==
    ret.status = "ok" /\ ret.kind = "conversation" /\ ret.cacheHit =>
        \A f \in files :
            f.name = ret.file =>
                AssembledFor(f.content, ret.req.conversationSegments,
                             ret.req.speakerPauseDuration)

\* C30: a call that returns a cache hit reports the duration that the
\* cache-miss call which wrote the file reported: when a call has returned
\* a miss and the call after it, for the same request, returns a hit on
\* the file of the first, the two durations are equal.
C30_HitReportsDurationOfMiss ==
    [][/\ MissResult
       /\ ret'.status = "ok"
       /\ ret'.cacheHit
       /\ ret'.req = ret.req
       /\ ret'.file = ret.file
       => ret'.duration = ret.duration]_vars

====
